---- MODULE Spec2Model ----
(***************************************************************************)
(* A model of highfive/newpr.py: the handler of GitHub "pull_request       *)
(* opened" webhook events (HighfiveHandler).  Strings are TLC strings and   *)
(* the string operations of the source (startswith, find, split, join, the  *)
(* two regular expressions) are computed character by character.  Python    *)
(* lists that the code mutates in place live in the heap `lists`, so that   *)
(* two names for one list (potential = groups['all']) see the same list.    *)
(***************************************************************************)
EXTENDS Integers, Sequences, FiniteSets, TLC

VARIABLES
    repo_file,     \* the repository's JSON configuration file, or None when absent
    repo_config,   \* self.repo_config: the loaded file, its lists by reference
    global_file,   \* the contents of _global.json: group name -> alias tokens
    payload,       \* self.payload
    event,         \* the event kind handed to run
    integration_user, \* config.github_username
    diff_text,     \* the body the gateway returns for the PR's diff
    lists,         \* the heap: list object id -> sequence of alias tokens
    pc,            \* position of the handler
    exception,     \* the exception that ended processing, or None
    groups,        \* choose_reviewer: the local dict, group name -> list object id
    potential,     \* choose_reviewer: the list object named potential, or None
    reviewers,     \* choose_reviewer: the expanded candidate list
    seen,          \* choose_reviewer: the expanded group names
    most_changed,  \* choose_reviewer: the winning directory, or None
    counts,        \* choose_reviewer: ordered dict directory -> added lines
    reviewer,      \* new_pr: the reviewer, or None
    post_msg,      \* new_pr: whether the reviewer was chosen by choose_reviewer
    to_mention,    \* new_pr: the mention rules get_to_mention returned
    is_new,        \* new_pr: what is_new_contributor returned, or None
    calls,         \* the outbound calls issued so far, with their responses
    invoked,       \* the methods of the handler entered so far
    ack            \* what run returned, or None

cfgVars == <<repo_file, global_file, payload, event, integration_user, diff_text>>
chooseVars == <<groups, potential, reviewers, seen, most_changed, counts>>
flowVars == <<reviewer, post_msg, to_mention, is_new, calls, ack>>
vars == <<cfgVars, repo_config, lists, pc, exception, chooseVars, flowVars, invoked>>

\* Python's None and a present value, kept apart from every string.
None == <<>>
Some(x) == <<x>>

-----------------------------------------------------------------------------
(* String operations of the source. *)

StartsWith(s, p) == Len(p) <= Len(s) /\ SubSeq(s, 1, Len(p)) = p

EndsWith(s, p) == Len(p) <= Len(s) /\ SubSeq(s, Len(s) - Len(p) + 1, Len(s)) = p

RECURSIVE FindFrom(_, _, _)
FindFrom(s, sub, i) ==
    IF i + Len(sub) - 1 > Len(s) THEN -1
    ELSE IF SubSeq(s, i, i + Len(sub) - 1) = sub THEN i - 1
    ELSE FindFrom(s, sub, i + 1)

\* str.find: the 0-based index of the first occurrence, -1 when there is none.
Find(s, sub) == FindFrom(s, sub, 1)

\* Whether p occurs in s at the 1-based position i.
TextAt(s, i, p) == i + Len(p) - 1 <= Len(s) /\ SubSeq(s, i, i + Len(p) - 1) = p

\* s[k:] for a 0-based k >= 0.
From(s, k) == SubSeq(s, k + 1, Len(s))

RECURSIVE Split(_, _)
Split(s, sep) ==
    LET at == Find(s, sep)
    IN  IF at = -1 THEN <<s>>
        ELSE <<SubSeq(s, 1, at)>> \o Split(From(s, at + Len(sep)), sep)

RECURSIVE Join(_, _)
Join(parts, sep) ==
    IF parts = <<>> THEN ""
    ELSE IF Len(parts) = 1 THEN parts[1]
    ELSE parts[1] \o sep \o Join(Tail(parts), sep)

\* parts[:n]
Take(parts, n) == SubSeq(parts, 1, IF Len(parts) < n THEN Len(parts) ELSE n)

-----------------------------------------------------------------------------
(* choose_reviewer: the scan of the diff. *)

\* Line 255: the path after " b/", split at "/".
PathParts(line) == Split(From(line, Find(line, " b/") + 3), "/")

\* Line 258: the first two segments of the path.
TwoSegments(line) == Join(Take(PathParts(line), 2), "/")

\* The directory a "diff --git" line sets as cur_dir, were src/test not excluded.
HeaderDirKeepsTests(line) ==
    LET joined == TwoSegments(line)
    IN  IF PathParts(line) = <<>> THEN None
        ELSE Some(IF StartsWith(joined, "src/librustc") THEN "src/librustc" ELSE joined)

\* The directory a "diff --git" line sets as cur_dir, None for src/test (lines 254-264).
HeaderDir(line) ==
    LET joined == TwoSegments(line)
        folded == IF StartsWith(joined, "src/librustc") THEN "src/librustc" ELSE joined
    IN  IF PathParts(line) = <<>> THEN None
        ELSE IF folded = "src/test" THEN None
        ELSE Some(folded)

Truthy(opt) == opt # None /\ opt[1] # ""

\* Lines 265 and 269 with the test read as "cur_dir in dirs".
HasMappedCurDir(d) == Truthy(d) /\ d[1] \in DOMAIN repo_config[1].dirs

\* Lines 265 and 269: "if cur_dir".
HasCurDir(d) == Truthy(d)

InCounts(cs, d) == \E i \in 1..Len(cs) : cs[i].dir = d

CountOf(cs, d) == LET i == CHOOSE i \in 1..Len(cs) : cs[i].dir = d IN cs[i].n

Bump(cs, d) == [i \in 1..Len(cs) |-> IF cs[i].dir = d THEN [cs[i] EXCEPT !.n = @ + 1] ELSE cs[i]]

IsAdded(line) == ~StartsWith(line, "+++") /\ StartsWith(line, "+")

RECURSIVE ScanLines(_, _, _)
ScanLines(ls, cur_dir, cs) ==
    IF ls = <<>> THEN cs
    ELSE LET line == Head(ls)
         IN  IF StartsWith(line, "diff --git ")
             THEN LET d == HeaderDir(line)
                  IN  ScanLines(Tail(ls), d,
                                IF HasCurDir(d) /\ ~InCounts(cs, d[1])
                                THEN Append(cs, [dir |-> d[1], n |-> 0]) ELSE cs)
             ELSE ScanLines(Tail(ls), cur_dir,
                            IF HasCurDir(cur_dir) /\ IsAdded(line)
                            THEN Bump(cs, cur_dir[1]) ELSE cs)

ScanDiff(diff) == ScanLines(Split(diff, "\n"), None, <<>>)

RECURSIVE Largest(_, _, _)
Largest(cs, most_changes, best) ==
    IF cs = <<>> THEN best
    ELSE IF Head(cs).n > most_changes
         THEN Largest(Tail(cs), Head(cs).n, Some(Head(cs).dir))
         ELSE Largest(Tail(cs), most_changes, best)

RECURSIVE LargestOrEqual(_, _, _)
LargestOrEqual(cs, most_changes, best) ==
    IF cs = <<>> THEN best
    ELSE IF Head(cs).n >= most_changes
         THEN LargestOrEqual(Tail(cs), Head(cs).n, Some(Head(cs).dir))
         ELSE LargestOrEqual(Tail(cs), most_changes, best)

\* The scan of lines 273-277 with >= for >.
MostChangedOrEqual(cs) == LargestOrEqual(cs, 0, None)

\* Lines 273-277.
MostChanged(cs) == Largest(cs, 0, None)

-----------------------------------------------------------------------------
(* choose_reviewer: the candidate list and its expansion. *)

Raise(e) == pc' = "failed" /\ exception' = Some(e)

\* Line 236 without deepcopy: groups is the configuration's own dict of lists.
CopyGroupsShared == repo_config[1].groups

\* deepcopy(self.repo_config['groups']): a fresh list object for every group.
CopyGroups == [n \in DOMAIN repo_config[1].groups |-> <<"local", n>>]

\* The objects json.load makes for the groups of _global.json.
LoadGlobal == [n \in DOMAIN global_file |-> <<"global", n>>]

\* Lines 241-243 without the assert: the global list replaces the repository's.
OverlapIgnored(loaded, copied) == FALSE

\* Line 242: some name of _global.json is already a group of the repository.
Overlap(loaded, copied) == DOMAIN loaded \cap DOMAIN copied # {}

\* Lines 235-284: the merged groups, the scan, and the starting list.
ChooseReviewer ==
    /\ pc = "choose_reviewer"
    /\ invoked' = invoked \cup {"choose_reviewer"}
    /\ LET dirs == repo_config[1].dirs
           copied == CopyGroups
           loaded == LoadGlobal
           merged == loaded @@ copied
           heap == [o \in {copied[n] : n \in DOMAIN copied} |-> lists[repo_config[1].groups[o[2]]]]
                   @@ [o \in {loaded[n] : n \in DOMAIN loaded} |-> global_file[o[2]]]
                   @@ lists
           cs == IF DOMAIN dirs # {} THEN ScanDiff(diff_text) ELSE <<>>
           mc == IF DOMAIN dirs # {} THEN MostChanged(cs) ELSE None
           extended == IF Truthy(mc) /\ mc[1] \in DOMAIN dirs
                       THEN [heap EXCEPT ![merged["all"]] = @ \o heap[dirs[mc[1]]]]
                       ELSE heap
       IN  IF Overlap(loaded, copied)
           THEN /\ Raise("AssertionError: group overlaps with _global.json")
                /\ groups' = copied
                /\ lists' = heap
                /\ UNCHANGED <<potential, most_changed, counts>>
           ELSE /\ groups' = merged
                /\ counts' = cs
                /\ most_changed' = mc
                /\ IF "all" \notin DOMAIN merged
                   THEN Raise("KeyError") /\ lists' = heap /\ UNCHANGED potential
                   ELSE /\ lists' = extended
                        /\ IF extended[merged["all"]] # <<>>
                           THEN /\ potential' = Some(merged["all"])
                                /\ pc' = "expand"
                                /\ UNCHANGED exception
                           ELSE IF "core" \in DOMAIN merged
                           THEN /\ potential' = Some(merged["core"])
                                /\ pc' = "expand"
                                /\ UNCHANGED exception
                           ELSE Raise("KeyError") /\ UNCHANGED potential
    /\ reviewers' = <<>>
    /\ seen' = {"all"}
    /\ UNCHANGED <<cfgVars, repo_config, flowVars>>

Last(s) == s[Len(s)]
Front(s) == SubSeq(s, 1, Len(s) - 1)

\* potential.extend(groups[p]), after the pop; groups[p] may be potential itself.
ExtendWith(heap, pot, src) == [heap EXCEPT ![pot] = @ \o heap[src]]

\* Lines 289-299: one iteration of the expansion loop.
ExpandUser ==
    /\ pc = "expand"
    /\ lists[potential[1]] # <<>>
    /\ LET p == Last(lists[potential[1]])
       IN  /\ StartsWith(p, "@")
           /\ reviewers' = Append(reviewers, From(p, 1))
           /\ lists' = [lists EXCEPT ![potential[1]] = Front(@)]
    /\ UNCHANGED <<cfgVars, repo_config, flowVars, invoked, pc, exception,
                   groups, potential, seen, most_changed, counts>>

ExpandGroup ==
    /\ pc = "expand"
    /\ lists[potential[1]] # <<>>
    /\ LET p == Last(lists[potential[1]])
           popped == [lists EXCEPT ![potential[1]] = Front(@)]
       IN  /\ ~StartsWith(p, "@")
           /\ p \in DOMAIN groups
           /\ p \notin seen
           /\ seen' = seen \cup {p}
           /\ lists' = ExtendWith(popped, potential[1], groups[p])
    /\ UNCHANGED <<cfgVars, repo_config, flowVars, invoked, pc, exception,
                   groups, potential, reviewers, most_changed, counts>>

ExpandSeen ==
    /\ pc = "expand"
    /\ lists[potential[1]] # <<>>
    /\ LET p == Last(lists[potential[1]])
       IN  /\ ~StartsWith(p, "@")
           /\ p \in DOMAIN groups
           /\ p \in seen
           /\ lists' = [lists EXCEPT ![potential[1]] = Front(@)]
    /\ Raise("AssertionError: group refers to itself")
    /\ UNCHANGED <<cfgVars, repo_config, flowVars, invoked, chooseVars>>

ExpandOther ==
    /\ pc = "expand"
    /\ lists[potential[1]] # <<>>
    /\ LET p == Last(lists[potential[1]])
       IN  /\ ~StartsWith(p, "@")
           /\ p \notin DOMAIN groups
           /\ lists' = [lists EXCEPT ![potential[1]] = Front(@)]
    /\ UNCHANGED <<cfgVars, repo_config, flowVars, invoked, pc, exception, chooseVars>>

RECURSIVE RemoveFirst(_, _)
\* list.remove(x): the first occurrence only.
RemoveFirst(s, x) ==
    IF s = <<>> THEN <<>>
    ELSE IF Head(s) = x THEN Tail(s)
    ELSE <<Head(s)>> \o RemoveFirst(Tail(s), x)

Elems(s) == {s[i] : i \in 1..Len(s)}

\* reviewers.remove(exclude) when exclude is in reviewers.
Exclude(rs, exclude) == IF exclude \in Elems(rs) THEN RemoveFirst(rs, exclude) ELSE rs

\* Lines 301-308, and the return into new_pr (line 375).
ChooseReturn ==
    /\ pc = "expand"
    /\ lists[potential[1]] = <<>>
    /\ LET rs == Exclude(reviewers, payload.author)
       IN  /\ reviewers' = rs
           /\ IF rs # <<>>
              THEN \E r \in Elems(rs) : reviewer' = Some(r)
              ELSE reviewer' = None
    /\ pc' = "get_to_mention"
    /\ UNCHANGED <<cfgVars, repo_config, lists, invoked, exception, groups, potential, seen,
                   most_changed, counts, post_msg, to_mention, is_new, calls, ack>>

NextChoose ==
    \/ ChooseReviewer
    \/ ExpandUser
    \/ ExpandGroup
    \/ ExpandSeen
    \/ ExpandOther
    \/ ChooseReturn


-----------------------------------------------------------------------------
(* The message texts (lines 21-35). *)

welcome_with_reviewer(r) == "@" \o r \o " (or someone else)"
welcome_without_reviewer == "@nrc (NB. this repo may be misconfigured)"
raw_welcome(text, link) ==
    "Thanks for the pull request, and welcome! The Rust team is excited to review your changes, and you should hear from "
    \o text
    \o " soon.\n\nIf any changes to this PR are deemed necessary, please add them as extra commits. This ensures that the reviewer can see what has changed since they last reviewed the code. Due to the way GitHub handles out-of-date commits, this should also make it reasonably obvious what issues have or haven't been addressed. Large or tricky changes may require several passes of review and changes."
    \o "\n\nPlease see [the contribution instructions](" \o link
    \o ") for more information.\n"
warning_summary(text) == ":warning: **Warning** :warning:\n\n" \o text
submodule_warning_msg == "These commits modify **submodules**."
surprise_branch_warning(expected, actual) ==
    "Pull requests are usually filed against the " \o expected
    \o " branch for this repo, but this one is against " \o actual
    \o ". Please double check that you specified the right target!"
review_with_reviewer(r) ==
    "r? @" \o r \o "\n\n(rust_highfive has picked a reviewer for you, use r? to override)"
review_without_reviewer(submitter) ==
    "@" \o submitter \o ": no appropriate reviewer found, use r? to override"

-----------------------------------------------------------------------------
(* find_reviewer: reviewer_re = \b[rR]\?[:\- ]*@([a-zA-Z0-9\-]+), searched. *)

Lower == {"a", "b", "c", "d", "e", "f", "g", "h", "i", "j", "k", "l", "m",
          "n", "o", "p", "q", "r", "s", "t", "u", "v", "w", "x", "y", "z"}
Upper == {"A", "B", "C", "D", "E", "F", "G", "H", "I", "J", "K", "L", "M",
          "N", "O", "P", "Q", "R", "S", "T", "U", "V", "W", "X", "Y", "Z"}
Digit == {"0", "1", "2", "3", "4", "5", "6", "7", "8", "9"}

\* s[i], 1-based; "" beyond the ends.
CharAt(s, i) == IF i >= 1 /\ i <= Len(s) THEN SubSeq(s, i, i) ELSE ""

IsWordChar(c) == c \in Lower \cup Upper \cup Digit \cup {"_"}
IsNameChar(c) == c \in Lower \cup Upper \cup Digit \cup {"-"}
IsSpace(c) == c \in {" ", "\t", "\n", "\r", "\f"}

RECURSIVE SkipSeparators(_, _)
\* [:\- ]* from position i: the position after the separators.
SkipSeparators(s, i) ==
    IF CharAt(s, i) \in {":", "-", " "} THEN SkipSeparators(s, i + 1) ELSE i

RECURSIVE NameEnd(_, _)
\* [a-zA-Z0-9\-]+ from position i: the position after the name.
NameEnd(s, i) == IF IsNameChar(CharAt(s, i)) THEN NameEnd(s, i + 1) ELSE i

\* The match of reviewer_re that starts at position i, as <<name>>, or None.
ReviewerAt(s, i) ==
    LET at == SkipSeparators(s, i + 2)
        stop == NameEnd(s, at + 1)
    IN  IF /\ CharAt(s, i) \in {"r", "R"}
           /\ ~IsWordChar(CharAt(s, i - 1))
           /\ CharAt(s, i + 1) = "?"
           /\ CharAt(s, at) = "@"
           /\ stop > at + 1
        THEN Some(SubSeq(s, at + 1, stop - 1))
        ELSE None

RECURSIVE SearchReviewer(_, _)
SearchReviewer(s, i) ==
    IF i > Len(s) THEN None
    ELSE IF ReviewerAt(s, i) # None THEN ReviewerAt(s, i)
    ELSE SearchReviewer(s, i + 1)

\* msg is None or <<text>>.
find_reviewer(msg) == IF msg # None THEN SearchReviewer(msg[1], 1) ELSE None

-----------------------------------------------------------------------------
(* get_to_mention (lines 310-348). *)

MentionKeys(mentions) == [i \in 1..Len(mentions) |-> mentions[i].key]

RECURSIVE MatchEntries(_, _, _)
\* The loop of lines 338-343 over the configured patterns, for one path.
MatchEntries(keys, full_dir, found) ==
    IF keys = <<>> THEN found
    ELSE LET entry == Head(keys)
             hit == \/ StartsWith(full_dir, entry) /\ entry \notin Elems(found)
                    \/ /\ EndsWith(entry, ".rs") /\ EndsWith(full_dir, entry)
                       /\ entry \notin Elems(found)
         IN  MatchEntries(Tail(keys), full_dir, IF hit THEN Append(found, entry) ELSE found)

RECURSIVE MentionScan(_, _, _)
MentionScan(ls, keys, found) ==
    IF ls = <<>> THEN found
    ELSE LET line == Head(ls)
             parts == PathParts(line)
             full_dir == Join(parts, "/")
         IN  IF StartsWith(line, "diff --git ") /\ parts # <<>> /\ Len(full_dir) > 0
             THEN MentionScan(Tail(ls), keys, MatchEntries(keys, full_dir, found))
             ELSE MentionScan(Tail(ls), keys, found)

RuleOf(mentions, key) ==
    mentions[CHOOSE i \in 1..Len(mentions) : mentions[i].key = key].rule

get_to_mention(diff) ==
    LET mentions == repo_config[1].mentions
        matched == IF DOMAIN repo_config[1].dirs # {}
                   THEN MentionScan(Split(diff, "\n"), MentionKeys(mentions), <<>>)
                   ELSE <<>>
    IN  [i \in 1..Len(matched) |-> RuleOf(mentions, matched[i])]

-----------------------------------------------------------------------------
(* run_commands: the aggregated mention comment (lines 117-138). *)

RECURSIVE Without(_, _)
Without(s, x) ==
    IF s = <<>> THEN <<>>
    ELSE IF Head(s) = x THEN Without(Tail(s), x)
    ELSE <<Head(s)>> \o Without(Tail(s), x)

\* The reviewers of a mention that its cc line names (line 129).
CcList(mention, user) == Without(mention.reviewers, user)

RECURSIVE MentionText(_, _, _)
MentionText(mentions, user, message) ==
    IF mentions = <<>> THEN message
    ELSE LET mention == Head(mentions)
             lead == IF Len(message) > 0 THEN message \o "\n\n" ELSE message
             msg == IF mention.message # None THEN mention.message[1] \o "\n\n" ELSE ""
         IN  MentionText(Tail(mentions), user,
                         lead \o msg \o "cc " \o Join(CcList(mention, user), ","))

RECURSIVE CommandsOf(_, _)
\* The keys of the dict commands, in insertion order.
CommandsOf(mentions, cmds) ==
    IF mentions = <<>> THEN cmds
    ELSE LET cmd == Head(mentions).command
         IN  CommandsOf(Tail(mentions),
                        IF cmd # None /\ cmd[1] \notin Elems(cmds)
                        THEN Append(cmds, cmd[1]) ELSE cmds)

RECURSIVE CommandText(_, _, _)
CommandText(cmds, sha, message) ==
    IF cmds = <<>> THEN message
    ELSE CommandText(Tail(cmds), sha,
                     (IF Len(message) > 0 THEN message \o "\n\n" ELSE message)
                     \o Head(cmds) \o " " \o sha)

\* The message run_commands builds; "" when to_mention is empty.
MentionMessage(mentions, user, sha) ==
    IF Len(mentions) > 0
    THEN CommandText(CommandsOf(mentions, <<>>), sha, MentionText(mentions, user, ""))
    ELSE ""

-----------------------------------------------------------------------------
(* post_warnings (lines 153-164), unexpected_branch, modifies_submodule. *)

\* submodule_re = .*\+Subproject\scommit\s.* with DOTALL, matched from the start.
modifies_submodule(diff) ==
    \E i \in 1..Len(diff) :
        /\ TextAt(diff, i, "+Subproject")
        /\ IsSpace(CharAt(diff, i + 11))
        /\ TextAt(diff, i + 12, "commit")
        /\ IsSpace(CharAt(diff, i + 18))

ExpectedBranch ==
    IF repo_config[1].expected_branch # None THEN repo_config[1].expected_branch[1]
    ELSE "master"

ActualBranch == Split(payload.base_label, ":")[2]

Warnings(diff) ==
    (IF ExpectedBranch # ActualBranch
     THEN <<surprise_branch_warning(ExpectedBranch, ActualBranch)>> ELSE <<>>)
    \o (IF modifies_submodule(diff) THEN <<submodule_warning_msg>> ELSE <<>>)

Bulleted(ws) == Join([i \in 1..Len(ws) |-> "* " \o ws[i]], "\n")

welcome_msg(r) ==
    LET text == IF r = None THEN welcome_without_reviewer ELSE welcome_with_reviewer(r[1])
        link == IF repo_config[1].contributing # None /\ repo_config[1].contributing[1] # ""
                THEN repo_config[1].contributing[1]
                ELSE "https://github.com/rust-lang/rust/blob/master/CONTRIBUTING.md"
    IN  raw_welcome(text, link)

review_msg(r, submitter) ==
    IF r = None THEN review_without_reviewer(submitter) ELSE review_with_reviewer(r[1])

-----------------------------------------------------------------------------
(* The gateway: api_req returns a body ("ok") or raises HTTPError with a code. *)

Responses == {"ok", "201", "422", "500"}

\* set_assignee and post_comment: except HTTPError as e: if e.code == 201: pass
ConflictCode == "201"

\* Lines 109-113 and 171-175 without the test of e.code.
ToleratedOnlyOk(resp) == resp = "ok"

\* Lines 109-113 and 171-175 with every HTTPError passed over.
ToleratedAlways(resp) == TRUE

Tolerated(resp) == resp = "ok" \/ resp = ConflictCode

Issue(call) == calls' = Append(calls, call)

-----------------------------------------------------------------------------
(* The handler. *)

\* json.load of the repository's file: a list object for every list in it.
LoadedConfig(file) ==
    [groups |-> [n \in DOMAIN file.groups |-> <<"repo", n>>],
     dirs |-> [d \in DOMAIN file.dirs |-> <<"dirs", d>>],
     mentions |-> file.mentions,
     new_pr_labels |-> file.new_pr_labels,
     expected_branch |-> file.expected_branch,
     contributing |-> file.contributing]

LoadedLists(file) ==
    [o \in ({"repo"} \X DOMAIN file.groups) \cup ({"dirs"} \X DOMAIN file.dirs) |->
        IF o[1] = "repo" THEN file.groups[o[2]] ELSE file.dirs[o[2]]]

\* Lines 60-63 without the except clause: the IOError of open() propagates.
LoadFailureUncaught == "IOError"

\* Lines 62-63: except IOError: raise UnsupportedRepoError.
LoadFailure == "UnsupportedRepoError"

\* __init__ and load_repo_config (lines 48-63).
Construct ==
    /\ pc = "init"
    /\ IF Len(Split(payload.full_name, "/")) # 2
       THEN Raise("ValueError") /\ UNCHANGED <<repo_config, lists>>
       ELSE IF repo_file = None
       THEN Raise(LoadFailure) /\ UNCHANGED <<repo_config, lists>>
       ELSE /\ repo_config' = Some(LoadedConfig(repo_file[1]))
            /\ lists' = LoadedLists(repo_file[1])
            /\ pc' = "run"
            /\ UNCHANGED exception
    /\ UNCHANGED <<cfgVars, chooseVars, flowVars, invoked>>

\* run (lines 65-72), up to the call of new_pr.
Run ==
    /\ pc = "run"
    /\ invoked' = invoked \cup {"run"}
    /\ IF event = "ping"
       THEN /\ ack' = Some("Ping received! The webhook is configured correctly!\n")
            /\ pc' = "done"
       ELSE IF event = "pull_request" /\ payload.action = "opened"
       THEN pc' = "new_pr" /\ UNCHANGED ack
       ELSE /\ ack' = Some("Unsupported webhook event.\n")
            /\ pc' = "done"
    /\ UNCHANGED <<cfgVars, repo_config, lists, exception, chooseVars,
                   reviewer, post_msg, to_mention, is_new, calls>>

\* new_pr, lines 357-365: the diff is fetched.
FetchDiff ==
    /\ pc = "new_pr"
    /\ invoked' = invoked \cup {"new_pr"}
    /\ \E resp \in Responses :
        /\ Issue([call |-> "get_diff", kind |-> "diff", arg |-> None, resp |-> resp])
        /\ IF resp = "ok" THEN pc' = "assign" /\ UNCHANGED exception
           ELSE Raise("HTTPError")
    /\ UNCHANGED <<cfgVars, repo_config, lists, chooseVars,
                   reviewer, post_msg, to_mention, is_new, ack>>

\* Line 367 with the test of the assignees dropped.
AssigneesIgnored == FALSE

\* Line 367: the negation of "not self.payload['pull_request', 'assignees']".
HasAssignees == payload.assignees # <<>>

\* Line 373 with the test of the requested reviewer dropped.
NeedsChoiceAlways(found) == TRUE

\* Line 373: if not reviewer.
NeedsChoice(found) == ~Truthy(found)

\* new_pr, lines 367-377: the assignee test and find_reviewer.
Assign ==
    /\ pc = "assign"
    /\ IF HasAssignees
       THEN /\ pc' = "post_warnings"
            /\ UNCHANGED <<reviewer, post_msg, invoked>>
       ELSE LET found == find_reviewer(payload.body)
            IN  /\ invoked' = invoked \cup {"find_reviewer"}
                /\ reviewer' = found
                /\ post_msg' = NeedsChoice(found)
                /\ pc' = IF NeedsChoice(found) THEN "choose_reviewer" ELSE "get_to_mention"
    /\ UNCHANGED <<cfgVars, repo_config, lists, exception, chooseVars,
                   to_mention, is_new, calls, ack>>

\* new_pr, lines 378-383, and set_assignee, lines 103-113.
SetAssignee ==
    /\ pc = "get_to_mention"
    /\ invoked' = invoked \cup {"get_to_mention", "set_assignee"}
    /\ to_mention' = get_to_mention(diff_text)
    /\ \E resp \in Responses :
        /\ Issue([call |-> "set_assignee", kind |-> "assignee", arg |-> reviewer,
                  resp |-> resp])
        /\ IF Tolerated(resp) THEN pc' = "run_commands" /\ UNCHANGED exception
           ELSE Raise("HTTPError")
    /\ UNCHANGED <<cfgVars, repo_config, lists, chooseVars,
                   reviewer, post_msg, is_new, ack>>

\* post_comment (lines 166-175): whether the caller goes on.
PostComment(kind, body, resp, next) ==
    /\ Issue([call |-> "post_comment", kind |-> kind, arg |-> Some(body), resp |-> resp])
    /\ IF Tolerated(resp) THEN pc' = next /\ UNCHANGED exception
       ELSE Raise("HTTPError")

\* Line 115 followed by a second pass through lines 378-383.
AfterRunCommandsAssignsAgain == "get_to_mention"

\* run_commands returns to set_assignee, which returns to new_pr at line 385.
AfterRunCommands == "is_new_contributor"

\* run_commands (lines 115-138), called at the end of set_assignee.
RunCommands ==
    /\ pc = "run_commands"
    /\ invoked' = invoked \cup {"run_commands"}
    /\ LET message == MentionMessage(to_mention, integration_user, payload.sha)
       IN  IF Len(message) > 0
           THEN \E resp \in Responses :
                    PostComment("mentions", message, resp, AfterRunCommands)
           ELSE pc' = AfterRunCommands /\ UNCHANGED <<calls, exception>>
    /\ UNCHANGED <<cfgVars, repo_config, lists, chooseVars,
                   reviewer, post_msg, to_mention, is_new, ack>>

\* Lines 385-392 with "elif post_msg" read as "else".
AfterNewContributorAlwaysNotice(new) == IF new THEN "post_welcome" ELSE "post_review"

\* The position after is_new_contributor returned (lines 385-392).
AfterNewContributor(new) ==
    IF new THEN "post_welcome" ELSE IF post_msg THEN "post_review" ELSE "post_warnings"

\* Line 208 with the fork test dropped.
ForkIgnored == FALSE

\* Line 208: if self.payload['repository', 'fork'].
IsFork == payload.fork

\* is_new_contributor (lines 204-221), called at line 385.
IsNewContributor ==
    /\ pc = "is_new_contributor"
    /\ invoked' = invoked \cup {"is_new_contributor"}
    /\ IF IsFork
       THEN /\ is_new' = Some(FALSE)
            /\ pc' = AfterNewContributor(FALSE)
            /\ UNCHANGED <<calls, exception>>
       ELSE \E resp \in Responses, total_count \in {0, 1} :
            /\ Issue([call |-> "commit_search", kind |-> "search",
                      arg |-> Some(payload.author), resp |-> resp,
                      total_count |-> IF resp = "ok" THEN total_count ELSE 0])
            /\ IF resp = "ok"
               THEN /\ is_new' = Some(total_count = 0)
                    /\ pc' = AfterNewContributor(total_count = 0)
                    /\ UNCHANGED exception
               ELSE IF resp = "422"
               THEN /\ is_new' = Some(TRUE)
                    /\ pc' = AfterNewContributor(TRUE)
                    /\ UNCHANGED exception
               ELSE Raise("HTTPError") /\ UNCHANGED is_new
    /\ UNCHANGED <<cfgVars, repo_config, lists, chooseVars,
                   reviewer, post_msg, to_mention, ack>>

\* new_pr, lines 386-388.
PostWelcome ==
    /\ pc = "post_welcome"
    /\ \E resp \in Responses :
        PostComment("welcome", welcome_msg(reviewer), resp, "post_warnings")
    /\ UNCHANGED <<cfgVars, repo_config, lists, chooseVars, invoked,
                   reviewer, post_msg, to_mention, is_new, ack>>

\* new_pr, lines 389-392.
PostReview ==
    /\ pc = "post_review"
    /\ \E resp \in Responses :
        PostComment("review", review_msg(reviewer, payload.author), resp, "post_warnings")
    /\ UNCHANGED <<cfgVars, repo_config, lists, chooseVars, invoked,
                   reviewer, post_msg, to_mention, is_new, ack>>

\* post_warnings (lines 153-164), called at line 394.
PostWarnings ==
    /\ pc = "post_warnings"
    /\ invoked' = invoked \cup {"post_warnings"}
    /\ LET warnings == Warnings(diff_text)
       IN  IF warnings # <<>>
           THEN \E resp \in Responses :
                    PostComment("warnings", warning_summary(Bulleted(warnings)), resp,
                                "add_labels")
           ELSE pc' = "add_labels" /\ UNCHANGED <<calls, exception>>
    /\ UNCHANGED <<cfgVars, repo_config, lists, chooseVars,
                   reviewer, post_msg, to_mention, is_new, ack>>

\* new_pr, lines 396-397, add_labels (lines 350-354), and the return of run (line 70).
AddLabels ==
    /\ pc = "add_labels"
    /\ IF repo_config[1].new_pr_labels # <<>>
       THEN /\ invoked' = invoked \cup {"add_labels"}
            /\ \E resp \in Responses :
                /\ Issue([call |-> "add_labels", kind |-> "labels",
                          arg |-> Some(repo_config[1].new_pr_labels), resp |-> resp])
                /\ IF resp = "ok"
                   THEN pc' = "done" /\ ack' = Some("OK\n") /\ UNCHANGED exception
                   ELSE Raise("HTTPError") /\ UNCHANGED ack
       ELSE pc' = "done" /\ ack' = Some("OK\n") /\ UNCHANGED <<calls, exception, invoked>>
    /\ UNCHANGED <<cfgVars, repo_config, lists, chooseVars,
                   reviewer, post_msg, to_mention, is_new>>

Next ==
    \/ Construct
    \/ Run
    \/ FetchDiff
    \/ Assign
    \/ ChooseReviewer
    \/ ExpandUser
    \/ ExpandGroup
    \/ ExpandSeen
    \/ ExpandOther
    \/ ChooseReturn
    \/ SetAssignee
    \/ RunCommands
    \/ IsNewContributor
    \/ PostWelcome
    \/ PostReview
    \/ PostWarnings
    \/ AddLabels

-----------------------------------------------------------------------------
(* Inputs. *)

MaxAliases == 2
MaxChunks == 4

SeqsUpTo(S, n) == UNION {[1..k -> S] : k \in 0..n}

NoMap == [x \in {} |-> <<>>]

RepoFile(gs, ds) ==
    [groups |-> gs, dirs |-> ds, mentions |-> <<>>, new_pr_labels |-> <<>>,
     expected_branch |-> None, contributing |-> None]

Payload(author) ==
    [action |-> "opened", full_name |-> "rust-lang/rust", number |-> 7, author |-> author,
     body |-> None, assignees |-> <<>>, fork |-> FALSE,
     base_label |-> "rust-lang:master", sha |-> "abc123"]

DocDiff == "diff --git a/src/doc/z.md b/src/doc/z.md\n+++ b/src/doc/z.md\n+x"

\* The state in which new_pr calls choose_reviewer (line 375).
AtChooseReviewer(file, glob, author, diff) ==
    /\ repo_file = Some(file)
    /\ repo_config = Some(LoadedConfig(file))
    /\ lists = LoadedLists(file)
    /\ global_file = glob
    /\ payload = Payload(author)
    /\ event = "pull_request"
    /\ integration_user = "rust-highfive"
    /\ diff_text = diff
    /\ pc = "choose_reviewer"
    /\ exception = None
    /\ groups = NoMap /\ potential = None /\ reviewers = <<>> /\ seen = {}
    /\ most_changed = None /\ counts = <<>>
    /\ reviewer = None /\ post_msg = TRUE /\ to_mention = <<>> /\ is_new = None
    /\ calls = <<>> /\ ack = None
    /\ invoked = {"run", "new_pr", "find_reviewer"}

\* Group structures: all and g in the repository's file, h and core global.
InitGroups ==
    \/ \E a \in SeqsUpTo({"@a", "@b", "g", "h"}, MaxAliases),
          g \in SeqsUpTo({"@a", "g", "h", "core", "x"}, 1),
          h \in SeqsUpTo({"@b", "g", "all"}, 1),
          c \in SeqsUpTo({"@b", "core", "g"}, 1) \cup {<<"@a", "core">>},
          d \in {NoMap, [x \in {"src/doc"} |-> <<"@a">>], [x \in {"src/doc"} |-> <<"g">>]} :
            AtChooseReviewer(RepoFile([n \in {"all", "g"} |-> IF n = "all" THEN a ELSE g], d),
                             [n \in {"h", "core"} |-> IF n = "h" THEN h ELSE c],
                             "a", DocDiff)
    \/ \E b \in SeqsUpTo({"@a", "@b"}, 1) :
            AtChooseReviewer(RepoFile([n \in {"all"} |-> b], NoMap), NoMap, "a", DocDiff)

SpecChoose == InitGroups /\ [][NextChoose]_vars

\* Diffs: up to MaxChunks chunks of text, joined by newlines.
DiffChunks ==
    {"diff --git a/src/librustc_foo/x.rs b/src/librustc_foo/x.rs",
     "diff --git a/src/test/y.rs b/src/test/y.rs",
     "diff --git a/src/doc/z.md b/src/doc/z.md",
     "diff --git a/README.md b/README.md",
     "+++ b/src/doc/z.md",
     "+x",
     "+y\n+z"}

ScanGroups == [n \in {"all", "g"} |-> IF n = "all" THEN <<"@a">> ELSE <<"@b">>]

\* With a directory mapping every diff; without one, where no scan runs, the short ones.
InitScan ==
    \/ \E chunks \in SeqsUpTo(DiffChunks, MaxChunks) :
            AtChooseReviewer(RepoFile(ScanGroups, [x \in {"src/doc"} |-> <<"g", "x", "g">>]),
                             NoMap, "c", Join(chunks, "\n"))
    \/ \E chunks \in SeqsUpTo(DiffChunks, 2) :
            AtChooseReviewer(RepoFile(ScanGroups, NoMap), NoMap, "c", Join(chunks, "\n"))

SpecScan == InitScan /\ [][NextChoose]_vars

\* Whole events: the repository's file, the payload and the diff.
GroupChoices ==
    {[n \in {"all"} |-> <<"@a", "@b">>],
     [n \in {"all"} |-> <<"@a">>],
     [n \in {"all", "g"} |-> IF n = "all" THEN <<"@b", "g", "x">> ELSE <<"g">>],
     [n \in {"all", "core"} |-> IF n = "all" THEN <<"@b">> ELSE <<"@a">>]}

DocMentions ==
    <<[key |-> "src/doc",
       rule |-> [message |-> Some("Documentation changed."), command |-> Some("@bors rollup"),
                 reviewers |-> <<"@d", "@b", "rust-highfive">>]],
      [key |-> "z.rs",
       rule |-> [message |-> None, command |-> None, reviewers |-> <<"@e">>]]>>

EventFiles ==
    {None} \cup
    {Some([groups |-> gs,
           dirs |-> ds,
           mentions |-> ms, new_pr_labels |-> ls,
           expected_branch |-> None, contributing |-> None]) :
        gs \in GroupChoices, ds \in {NoMap, [d \in {"src/doc"} |-> <<"@d">>]},
        ms \in {<<>>, DocMentions},
        ls \in {<<>>, <<"S-waiting-on-review">>}}

EventDiffs ==
    {DocDiff,
     "diff --git a/src/llvm b/src/llvm\n+Subproject commit 0123\ndiff --git a/src/lib/z.rs b/src/lib/z.rs\n+y",
     "diff --git a/src/lib/z.rs b/src/lib/z.rs\n+y\n+y\ndiff --git a/src/doc/z.md b/src/doc/z.md\n+x\ndiff --git a/src/doc/w.md b/src/doc/w.md\n+x"}

Bodies == {None, Some("Fixes #1. r? @carol"), Some("r?:@a"), Some("for? @bob")}

Init ==
    /\ repo_file \in EventFiles
    /\ global_file = [n \in {"core"} |-> <<"@c">>]
    /\ \E ev \in {<<"ping", "opened">>, <<"pull_request", "opened">>,
                   <<"pull_request", "closed">>, <<"issues", "opened">>},
          body \in Bodies, assignees \in {<<>>, <<"dave">>}, fork \in BOOLEAN,
          base \in {"rust-lang:master", "rust-lang:beta"} :
        /\ event = ev[1]
        /\ payload = [Payload("a") EXCEPT !.action = ev[2], !.body = body,
                                          !.assignees = assignees, !.fork = fork,
                                          !.base_label = base]
    /\ integration_user = "rust-highfive"
    /\ diff_text \in EventDiffs
    /\ repo_config = None
    /\ lists = NoMap
    /\ pc = "init"
    /\ exception = None
    /\ groups = NoMap /\ potential = None /\ reviewers = <<>> /\ seen = {}
    /\ most_changed = None /\ counts = <<>>
    /\ reviewer = None /\ post_msg = FALSE /\ to_mention = <<>> /\ is_new = None
    /\ calls = <<>> /\ ack = None
    /\ invoked = {}

Spec == Init /\ [][Next]_vars

-----------------------------------------------------------------------------
(* The vocabulary of the properties, read off the configuration files. *)

\* The alias tokens the merged configuration gives a group name.
FileTokens(n) ==
    IF n \in DOMAIN global_file THEN global_file[n]
    ELSE IF n \in DOMAIN repo_file[1].groups THEN repo_file[1].groups[n]
    ELSE <<>>

FileGroupNames == DOMAIN global_file \cup DOMAIN repo_file[1].groups

GroupRefs(tokens) == {t \in Elems(tokens) : ~StartsWith(t, "@") /\ t \in FileGroupNames}

RECURSIVE GroupClosure(_)
GroupClosure(S) ==
    LET more == S \cup UNION {GroupRefs(FileTokens(n)) : n \in S}
    IN  IF more = S THEN S ELSE GroupClosure(more)

\* The groups an alias list leads to, directly or through other groups.
ReachedFrom(tokens) == GroupClosure(GroupRefs(tokens))

RefersToItself(n) == n \in ReachedFrom(FileTokens(n))

\* The starting candidate list of lines 280-284.
StartingList ==
    LET dirs == repo_file[1].dirs
        base == FileTokens("all")
                \o (IF Truthy(most_changed) /\ most_changed[1] \in DOMAIN dirs
                    THEN dirs[most_changed[1]] ELSE <<>>)
    IN  IF base # <<>> THEN base ELSE FileTokens("core")

UsersIn(tokens) == {From(t, 1) : t \in {u \in Elems(tokens) : StartsWith(u, "@")}}

\* The usernames the starting list leads to.
CandidatePool ==
    UsersIn(StartingList) \cup UNION {UsersIn(FileTokens(n)) : n \in ReachedFrom(StartingList)}

\* The expansion loop has been entered.
Expanding == potential # None

\* choose_reviewer has returned to new_pr.
ChooseReturned ==
    /\ "choose_reviewer" \in invoked
    /\ pc \notin {"choose_reviewer", "expand"}
    /\ exception \in {None, Some("HTTPError")}

CycleError == exception = Some("AssertionError: group refers to itself")

-----------------------------------------------------------------------------
(* The properties. *)

\* C1: whenever choose_reviewer returns, the reviewer it returned is not the
\* excluded PR author, however many alias paths lead to the author; and when the
\* author is the only username of the expanded pool, it returned None.
C1_ReviewerIsNeverAuthor ==
    ChooseReturned =>
        /\ reviewer # Some(payload.author)
        /\ (CandidatePool = {payload.author} => reviewer = None)

\* C2: once the expansion has expanded a group that refers to itself, directly or
\* through other groups, choose_reviewer does not return: it fails with the
\* configuration error.
C2_CycleIsRejected ==
    ChooseReturned => \A n \in seen \ {"all"} : ~RefersToItself(n)

\* C3: when no group the starting list leads to refers to itself, the expansion
\* raises no error, and when it ends the candidate list holds exactly the
\* usernames the starting list leads to.
C3_AcyclicExpansion ==
    (Expanding /\ \A n \in ReachedFrom(StartingList) : ~RefersToItself(n)) =>
        /\ ~CycleError
        /\ Elems(reviewers) \subseteq CandidatePool
        /\ (ChooseReturned => CandidatePool \ {payload.author} \subseteq Elems(reviewers))

PrOpened == event = "pull_request" /\ payload.action = "opened"

CallsOf(name) == {i \in 1..Len(calls) : calls[i].call = name}
Posted(kind) == \E i \in 1..Len(calls) : calls[i].kind = kind

\* C4: in a PR-opened event on a PR without assignees whose body holds an explicit
\* reviewer request, every assignee call names the requested reviewer, the event
\* does not end without that call, choose_reviewer is never invoked and no
\* reviewer-assignment notice is posted.
C4_ExplicitReviewer ==
    LET requested == find_reviewer(payload.body)
    IN  (PrOpened /\ payload.assignees = <<>> /\ requested # None) =>
            /\ "choose_reviewer" \notin invoked
            /\ ~Posted("review")
            /\ \A i \in CallsOf("set_assignee") : calls[i].arg = requested
            /\ (pc = "done" => Cardinality(CallsOf("set_assignee")) = 1)

C4_Witness ==
    /\ pc = "done" /\ ack = Some("OK\n")
    /\ payload.assignees = <<>>
    /\ payload.body = Some("Fixes #1. r? @carol")
    /\ \E i \in CallsOf("set_assignee") : calls[i].arg = Some("carol")
    /\ Posted("welcome")

\* C5: when the payload lists an assignee, no assignee call is issued and neither
\* find_reviewer nor choose_reviewer is invoked.
C5_AssigneesKept ==
    payload.assignees # <<>> =>
        /\ CallsOf("set_assignee") = {}
        /\ invoked \cap {"find_reviewer", "choose_reviewer", "set_assignee"} = {}

C5_Witness ==
    /\ pc = "done" /\ ack = Some("OK\n")
    /\ payload.assignees # <<>>
    /\ Posted("warnings") /\ Posted("labels")

\* What the new-contributor determination answered, read off the gateway's reply.
SearchSaysNew ==
    \E i \in CallsOf("commit_search") :
        \/ calls[i].resp = "ok" /\ calls[i].total_count = 0
        \/ calls[i].resp = "422"

Determined == "is_new_contributor" \in invoked /\ exception = None
PastNotice == pc \in {"post_warnings", "add_labels", "done"}

\* C6: on a PR without assignees the welcome comment and the reviewer-assignment
\* notice are never both posted; the welcome is posted only for a new contributor
\* and the notice only for a contributor who is not new and whose reviewer came
\* from choose_reviewer; and once the event is past that step, the welcome has
\* been posted if the author is new and the notice if the author is not new and
\* the reviewer came from choose_reviewer.
C6_WelcomeOrNotice ==
    payload.assignees = <<>> =>
        /\ ~(Posted("welcome") /\ Posted("review"))
        /\ (Posted("welcome") => SearchSaysNew)
        /\ (Posted("review") => ~SearchSaysNew /\ "choose_reviewer" \in invoked)
        /\ (Determined /\ PastNotice =>
                /\ (SearchSaysNew => Posted("welcome"))
                /\ (~SearchSaysNew /\ "choose_reviewer" \in invoked => Posted("review")))

C6_Witness ==
    /\ pc = "done" /\ payload.assignees = <<>>
    /\ Posted("review") /\ ~SearchSaysNew /\ reviewer = Some("b")

\* C7: in an event from a fork no commit-search query is issued, is_new_contributor
\* answers false and no welcome comment is posted.
C7_ForkIsNeverNew ==
    payload.fork =>
        /\ CallsOf("commit_search") = {}
        /\ is_new \in {None, Some(FALSE)}
        /\ ~Posted("welcome")

C7_Witness ==
    /\ payload.fork /\ pc = "done" /\ is_new = Some(FALSE)
    /\ "is_new_contributor" \in invoked /\ Posted("review")

ConflictReturned ==
    /\ calls # <<>>
    /\ Last(calls).call \in {"set_assignee", "post_comment"}
    /\ Last(calls).resp = "201"

\* C10: after a setAssignee or postComment call that returned the conflict response
\* the handler is at the step that follows the call, no exception is raised, and
\* when no later call fails the event ends acknowledged with OK.
C10_ConflictIsSuccess ==
    /\ ConflictReturned =>
            /\ exception = None
            /\ pc \in {"run_commands", "is_new_contributor", "post_welcome", "post_review",
                       "post_warnings", "add_labels", "done"}
            /\ (Last(calls).call = "set_assignee" => "run_commands" \in invoked \/ pc = "run_commands")
    /\ (pc = "done" /\ PrOpened => ack = Some("OK\n"))
    /\ (pc = "failed" /\ calls # <<>> /\ Last(calls).call \in {"set_assignee", "post_comment"}
            => Last(calls).resp \in {"422", "500"})

C10_Witness ==
    /\ pc = "done" /\ ack = Some("OK\n")
    /\ \E i \in CallsOf("set_assignee") : calls[i].resp = "201"
    /\ \E i \in CallsOf("post_comment") : calls[i].resp = "201" /\ calls[i].kind = "mentions"
    /\ \E i \in CallsOf("post_comment") : calls[i].resp = "201" /\ calls[i].kind = "warnings"
    /\ Posted("labels")

\* The file sections of the diff in order: the two-segment directory of each
\* header and the number of added lines that follow it up to the next header.
RECURSIVE SectionsOf(_, _)
SectionsOf(ls, acc) ==
    IF ls = <<>> THEN acc
    ELSE IF StartsWith(Head(ls), "diff --git ")
    THEN SectionsOf(Tail(ls), Append(acc, [raw |-> TwoSegments(Head(ls)), added |-> 0]))
    ELSE IF acc # <<>> /\ IsAdded(Head(ls))
    THEN SectionsOf(Tail(ls), [acc EXCEPT ![Len(acc)].added = @ + 1])
    ELSE SectionsOf(Tail(ls), acc)

Sections == SectionsOf(Split(diff_text, "\n"), <<>>)

RECURSIVE Sum(_, _)
Sum(f, S) == IF S = {} THEN 0 ELSE LET x == CHOOSE x \in S : TRUE IN f[x] + Sum(f, S \ {x})

\* The number of added lines in the sections whose two-segment directory satisfies In.
AddedIn(secs, In(_)) ==
    Sum([i \in 1..Len(secs) |-> secs[i].added], {i \in 1..Len(secs) : In(secs[i].raw)})

\* The directory a section is attributed to: src/librustc* is one directory.
Attributed(raw) == IF StartsWith(raw, "src/librustc") THEN "src/librustc" ELSE raw

\* The position of the first section attributed to directory d.
FirstSeen(secs, d) ==
    LET at == {i \in 1..Len(secs) : Attributed(secs[i].raw) = d}
    IN  CHOOSE i \in at : \A k \in at : i <= k

\* The scan of choose_reviewer has run.
Scanned == pc # "choose_reviewer"

CountedDirs == {counts[i].dir : i \in 1..Len(counts)}

WinnerIsFirstLargest(secs) ==
    /\ (most_changed # None =>
            /\ most_changed[1] \in CountedDirs
            /\ CountOf(counts, most_changed[1]) > 0
            /\ \A d \in CountedDirs :
                /\ CountOf(counts, d) <= CountOf(counts, most_changed[1])
                /\ (CountOf(counts, d) = CountOf(counts, most_changed[1])
                        => FirstSeen(secs, most_changed[1]) <= FirstSeen(secs, d)))
    /\ (most_changed = None <=> \A d \in CountedDirs : CountOf(counts, d) = 0)
    /\ \A d \in CountedDirs :
            CountOf(counts, d) = AddedIn(secs, LAMBDA raw : Attributed(raw) = d)

\* C8: the winning directory has a count above zero that no other directory's
\* count exceeds, among the directories with that count it is the one whose
\* header comes first in the diff, and it is None exactly when no directory has a
\* count above zero; the counts are the numbers of added lines of the diff.
C8_WinningDirectory == Scanned => WinnerIsFirstLargest(Sections)

TieFirstWins(secs) ==
    /\ most_changed = Some("src/librustc")
    /\ "src/doc" \in CountedDirs
    /\ CountOf(counts, "src/doc") = 2 /\ CountOf(counts, "src/librustc") = 2
    /\ FirstSeen(secs, "src/librustc") < FirstSeen(secs, "src/doc")

\* Two directories tie for the highest count and the second one seen is not the winner.
C8_Witness == Scanned /\ TieFirstWins(Sections)

UnderRustc(raw) == StartsWith(raw, "src/librustc")
UnderTests(raw) == raw = "src/test"
Elsewhere(raw) == ~UnderRustc(raw) /\ ~UnderTests(raw)

OnlyRustcAndTests(secs) == AddedIn(secs, UnderRustc) > 0 /\ AddedIn(secs, Elsewhere) = 0

TestsExcludedRustcFolded(secs) ==
    /\ "src/test" \notin CountedDirs
    /\ \A d \in CountedDirs : ~(UnderRustc(d) /\ d # "src/librustc")
    /\ (AddedIn(secs, UnderRustc) > 0 =>
            /\ "src/librustc" \in CountedDirs
            /\ CountOf(counts, "src/librustc") = AddedIn(secs, UnderRustc))
    /\ (OnlyRustcAndTests(secs) => most_changed = Some("src/librustc"))

\* C9 as stated: added lines under src/test raise no count, every section under
\* src/librustc* is counted under src/librustc, and a diff whose additions are
\* only under src/librustc* and src/test has the winning directory src/librustc.
C9_TestsExcluded == Scanned => TestsExcludedRustcFolded(Sections)

\* C9 as amended: the same, for a configuration that maps at least one directory.
C9_TestsExcludedWithDirs ==
    (Scanned /\ DOMAIN repo_file[1].dirs # {}) => TestsExcludedRustcFolded(Sections)

RustcBeatsTests(secs) ==
    /\ AddedIn(secs, UnderRustc) = 1
    /\ AddedIn(secs, UnderTests) = 2
    /\ OnlyRustcAndTests(secs)
    /\ most_changed = Some("src/librustc")

\* One added line under src/librustc_foo wins against two under src/test.
C9_Witness == Scanned /\ DOMAIN repo_file[1].dirs # {} /\ RustcBeatsTests(Sections)

-----------------------------------------------------------------------------
(* The event as a whole. *)

OutboundCalls == {"get_diff", "set_assignee", "post_comment", "commit_search", "add_labels"}

Constructed == pc # "init"

\* C11: when the repository has no configuration file, the constructor fails with
\* UnsupportedRepoError, whatever the event, and the event issues no outbound call,
\* runs no handler and is not acknowledged.
C11_UnsupportedRepo ==
    (repo_file = None /\ Constructed) =>
        /\ pc = "failed"
        /\ exception = Some("UnsupportedRepoError")
        /\ calls = <<>>
        /\ invoked = {}
        /\ ack = None

\* A PR-opened event for a repository without a configuration file has failed.
C11_Witness ==
    /\ repo_file = None /\ Constructed
    /\ PrOpened
    /\ exception = Some("UnsupportedRepoError")
    /\ calls = <<>>

\* The workflow step an outbound call belongs to, by the kind recorded with it.
StepOf(kind) ==
    CASE kind = "diff" -> 1
      [] kind = "assignee" -> 2
      [] kind = "mentions" -> 3
      [] kind = "search" -> 4
      [] kind \in {"welcome", "review"} -> 5
      [] kind = "warnings" -> 6
      [] kind = "labels" -> 7

InOrder == \A i, j \in 1..Len(calls) : i < j => StepOf(calls[i].kind) < StepOf(calls[j].kind)

\* C12: the outbound calls of an event are issued in the order diff fetch, assignee
\* set, mention comment, new-contributor query, welcome comment or reviewer notice,
\* warning comment, label post: every call belongs to a later step than every call
\* before it, so no step is called twice and welcome and notice exclude each other.
C12_CallsInOrder ==
    /\ \A i \in 1..Len(calls) : calls[i].call \in OutboundCalls
    /\ InOrder

\* An event that issued a call of every one of the seven steps and was acknowledged.
C12_Witness ==
    /\ pc = "done" /\ ack = Some("OK\n")
    /\ Len(calls) = 7
    /\ {StepOf(calls[i].kind) : i \in 1..Len(calls)} = 1..7

SideEffecting == {"set_assignee", "post_comment", "add_labels"}

\* The call was answered with an HTTPError other than the conflict.
FailedCall(c) == c.resp \notin {"ok", ConflictCode}

\* The commit search answered 422, which is_new_contributor reads as a new contributor.
SearchUnprocessable(c) == c.call = "commit_search" /\ c.resp = "422"

\* The failure of call i ended the event: the error is raised to the caller of run,
\* no call follows, and the event is not acknowledged.
Propagated(i) ==
    /\ i = Len(calls)
    /\ pc = "failed"
    /\ exception = Some("HTTPError")
    /\ ack = None

AtMostOnce ==
    \A i, j \in 1..Len(calls) :
        (i # j /\ calls[i].call \in SideEffecting) => calls[i].kind # calls[j].kind

\* C13 as stated: an outbound call answered with an error other than the conflict
\* ends the event with that error, is not issued again and is followed by no other
\* call; every side-effecting call is issued at most once.
C13_FailurePropagates ==
    /\ \A i \in 1..Len(calls) : FailedCall(calls[i]) => Propagated(i)
    /\ AtMostOnce

\* C13 as amended: the same, except for the commit search answered with 422.
C13_FailurePropagatesBut422 ==
    /\ \A i \in 1..Len(calls) :
            (FailedCall(calls[i]) /\ ~SearchUnprocessable(calls[i])) => Propagated(i)
    /\ AtMostOnce

\* The mention comment failed after the diff and the assignee call succeeded.
C13_Witness ==
    /\ Len(calls) = 3
    /\ calls[2].call = "set_assignee" /\ calls[2].resp = "ok"
    /\ calls[3].kind = "mentions" /\ calls[3].resp = "500"
    /\ Propagated(3)

\* The names on the cc lines of a comment body.
CcNames(body) ==
    UNION {Elems(Split(From(l, 3), ",")) :
             l \in {m \in Elems(Split(body, "\n")) : StartsWith(m, "cc ")}}

AssignedReviewers ==
    {calls[i].arg[1] : i \in {k \in CallsOf("set_assignee") : calls[k].arg # None}}

MentionBodies == {calls[i].arg[1] : i \in {k \in 1..Len(calls) : calls[k].kind = "mentions"}}

\* C14: no cc line of the mention comment of an event names the reviewer assigned
\* in that event, with or without the leading @.
C14_ReviewerNotInCc ==
    \A body \in MentionBodies, r \in AssignedReviewers :
        /\ r \notin CcNames(body)
        /\ ("@" \o r) \notin CcNames(body)

\* The file paths of the diff headers, in order.
HeaderPaths ==
    LET ls == Split(diff_text, "\n")
        at == {i \in 1..Len(ls) : StartsWith(ls[i], "diff --git ")}
    IN  [i \in at |-> Join(PathParts(ls[i]), "/")]

FileMentions == repo_file[1].mentions

\* The path starts with the key, or ends with it for a key that ends in .rs.
KeyMatches(key, path) ==
    StartsWith(path, key) \/ (EndsWith(key, ".rs") /\ EndsWith(path, key))

MatchingAt(key) == {i \in DOMAIN HeaderPaths : KeyMatches(key, HeaderPaths[i])}

MatchedKeys == {k \in Elems(MentionKeys(FileMentions)) : MatchingAt(k) # {}}

FirstMatch(key) == CHOOSE i \in MatchingAt(key) : \A k \in MatchingAt(key) : i <= k

KeyIndex(key) == CHOOSE i \in 1..Len(FileMentions) : FileMentions[i].key = key

\* Key k matched before key l: at an earlier header, or at the same header and
\* earlier among the configured patterns.
MatchedBefore(k, l) ==
    \/ FirstMatch(k) < FirstMatch(l)
    \/ FirstMatch(k) = FirstMatch(l) /\ KeyIndex(k) < KeyIndex(l)

\* The rules of the matched keys, each once, in the order of their first match.
MentionsInMatchOrder(ms) ==
    \E ks \in [1..Len(ms) -> MatchedKeys] :
        /\ \A k \in MatchedKeys : \E i \in 1..Len(ms) : ks[i] = k
        /\ \A i, j \in 1..Len(ms) : i < j => MatchedBefore(ks[i], ks[j])
        /\ \A i \in 1..Len(ms) : ms[i] = RuleOf(FileMentions, ks[i])

MentionsComputed == "get_to_mention" \in invoked

\* C15: get_to_mention returns the rule of every configured key that matches the
\* path of some diff header, once, in the order of first match, and no other rule,
\* whether or not the configuration maps any directory.
C15_MentionsMatched == MentionsComputed => MentionsInMatchOrder(to_mention)

\* The path of a header has fewer than two segments: its two-segment directory
\* holds no separator.
ShortPath(raw) == Find(raw, "/") = -1

ShortSections(secs) == {i \in 1..Len(secs) : ShortPath(secs[i].raw)}

ShortPathsIgnored(secs) ==
    /\ \A i \in ShortSections(secs) : secs[i].raw \notin CountedDirs
    /\ \A d \in CountedDirs :
            CountOf(counts, d) =
                AddedIn(secs, LAMBDA raw : ~ShortPath(raw) /\ Attributed(raw) = d)

\* C16: a header whose path after b/ has fewer than two segments creates no entry
\* in the counts, and the added lines that follow it raise no directory's count.
C16_ShortPathIgnored == Scanned => ShortPathsIgnored(Sections)

MappedDirs == DOMAIN repo_file[1].dirs

\* C17 as stated: only keys of the directory mapping have a count, so the winning
\* directory, when there is one, is a key of the mapping.
C17_OnlyMappedCounted ==
    Scanned =>
        /\ CountedDirs \subseteq MappedDirs
        /\ (most_changed # None => most_changed[1] \in MappedDirs)

\* The directories of the sections that the scan gives a current directory.
SectionDirs(secs) ==
    {Attributed(secs[i].raw) : i \in {k \in 1..Len(secs) : secs[k].raw \notin {"", "src/test"}}}

EveryDirectoryCounted(secs) ==
    /\ CountedDirs = SectionDirs(secs)
    /\ \A d \in CountedDirs :
            CountOf(counts, d) = AddedIn(secs, LAMBDA raw : Attributed(raw) = d)

\* C17 as amended: when the configuration maps a directory, every directory of the
\* diff other than src/test has a count, a key of the mapping or not, and the
\* aliases of a directory reach the candidates only when it wins and is a key.
C17_EveryDirectoryCounted ==
    (Scanned /\ MappedDirs # {}) =>
        /\ EveryDirectoryCounted(Sections)
        /\ Elems(reviewers) \subseteq CandidatePool

\* A directory outside the mapping wins against a mapped one, and the candidates
\* come from the all group alone.
C17_Witness ==
    /\ Scanned /\ ChooseReturned
    /\ most_changed = Some("src/librustc") /\ "src/librustc" \notin MappedDirs
    /\ "src/doc" \in CountedDirs /\ CountOf(counts, "src/doc") = 1
    /\ reviewer = Some("a")

\* The repository's file defines a group that _global.json defines too.
GroupCollision == DOMAIN repo_file[1].groups \cap DOMAIN global_file # {}

CollisionError == exception = Some("AssertionError: group overlaps with _global.json")

NoSideEffect == \A i \in 1..Len(calls) : calls[i].call \notin SideEffecting

\* C18 as stated: a PR-opened event on a repository with a colliding group name is
\* never acknowledged and issues no assignee, comment or label call; when it has
\* failed after the diff was fetched, it failed with the configuration error.
C18_CollisionFailsEvent ==
    (repo_file # None /\ GroupCollision /\ PrOpened) =>
        /\ NoSideEffect
        /\ pc # "done"
        /\ (pc = "failed" /\ Last(calls).resp = "ok" => CollisionError)

\* C18 as amended: the event fails with the configuration error, before any
\* assignee, comment or label call, once new_pr has called choose_reviewer; an
\* assignee call of such a repository names the reviewer the PR body requested.
C18_CollisionFailsChoice ==
    (repo_file # None /\ GroupCollision /\ PrOpened) =>
        /\ ("choose_reviewer" \in invoked =>
                /\ pc = "failed" /\ CollisionError
                /\ NoSideEffect
                /\ reviewer = None /\ ack = None)
        /\ \A r \in AssignedReviewers : find_reviewer(payload.body) = Some(r)

\* choose_reviewer was called on a repository with a colliding group and failed.
C18_Witness ==
    /\ repo_file # None /\ GroupCollision /\ PrOpened
    /\ "choose_reviewer" \in invoked
    /\ pc = "failed" /\ CollisionError
    /\ Len(calls) = 1

\* The configuration the handler holds equals the file it was loaded from.
ConfigAsLoaded ==
    LET file == repo_file[1]
        config == repo_config[1]
    IN  /\ DOMAIN config.groups = DOMAIN file.groups
        /\ \A n \in DOMAIN file.groups : lists[config.groups[n]] = file.groups[n]
        /\ DOMAIN config.dirs = DOMAIN file.dirs
        /\ \A d \in DOMAIN file.dirs : lists[config.dirs[d]] = file.dirs[d]
        /\ config.mentions = file.mentions

\* C19: from construction on, whatever choose_reviewer, get_to_mention and
\* run_commands did and whether they returned or failed, every group's and every
\* directory's alias list and the mention rules of the handler's configuration
\* equal their values at load time.
C19_ConfigUnchanged == repo_config # None => ConfigAsLoaded

\* choose_reviewer extended its work list with a directory's aliases and popped it
\* empty, the event ran to its end, and the all group still has its aliases.
C19_Witness ==
    /\ pc = "done"
    /\ {"choose_reviewer", "get_to_mention", "run_commands"} \subseteq invoked
    /\ most_changed = Some("src/doc")
    /\ lists[groups["all"]] = <<>>
    /\ lists[repo_config[1].groups["all"]] # <<>>
    /\ ConfigAsLoaded

\* A PR-opened event on a PR with assignees, whose diff matches a mention rule of a
\* configuration that maps a directory, has run to its end.
AssignedEventEnded ==
    /\ repo_file # None /\ PrOpened /\ HasAssignees
    /\ MappedDirs # {} /\ MatchedKeys # {}
    /\ pc = "done"

\* C20: a PR-opened event on a PR that already has assignees, whose diff matches a
\* configured mention rule, has posted the mention comment when it ends, and the
\* warning comment and the labels when there are warnings and labels.
C20_MentionsDespiteAssignees ==
    AssignedEventEnded =>
        /\ Posted("mentions")
        /\ (Warnings(diff_text) # <<>> => Posted("warnings"))
        /\ (repo_file[1].new_pr_labels # <<>> => Posted("labels"))

====
